---- MODULE Spec2Model ----
(***************************************************************************)
(* A model of the helpers of fastapi/utils.py and of the parameter         *)
(* declarators of fastapi/param_functions.py.  Every helper is a function  *)
(* of its arguments; each family of helpers has its own variables and its  *)
(* own specification, whose Init draws the arguments from bounded sets and *)
(* whose actions run the helper as the code runs it.                       *)
(***************************************************************************)
EXTENDS Integers, Sequences, FiniteSets, TLC

VARIABLES
    status_code,      \* argument of is_body_allowed_for_status_code
    body_allowed,     \* its outcome: "pending", "True", "False", "ValueError"
    items,            \* arguments of get_value_or_default, in order
    resolved,         \* what it returned: [done, index, item]
    heap,             \* the dict objects deep_dict_update works on, by address
    calls,            \* the deep_dict_update calls made: [upd, before]
    PYDANTIC_V2,      \* fastapi._compat.PYDANTIC_V2, fixed by the installation
    types,            \* the classes, by identity
    fields,           \* the ModelField objects, by identity
    infos,            \* the FieldInfo objects, by identity
    declared,         \* types, fields and infos as they were declared
    cloned,           \* create_cloned_field's outcome, and what was done to it
    field_args,       \* arguments of create_response_field
    field_result,     \* its outcome: a field returned or an error raised
    path,             \* argument of get_path_param_names
    param_names,      \* its outcome
    declarator,       \* the declarator called and the arguments passed
    declaration,      \* the record it returned
    route,            \* the route a request is made to
    response,         \* how the request ended
    api_routes,       \* two routes generate_unique_id is called with
    operation_ids     \* what the two calls returned

statusVars == <<status_code, body_allowed>>

defaultVars == <<items, resolved>>

mergeVars == <<heap, calls>>

compatVars == <<PYDANTIC_V2>>

cloneVars == <<types, fields, infos, declared, cloned>>

fieldVars == <<field_args, field_result>>

pathVars == <<path, param_names>>

paramVars == <<declarator, declaration>>

routeVars == <<route, response>>

uniqueVars == <<api_routes, operation_ids>>

vars == <<statusVars, defaultVars, mergeVars, compatVars, cloneVars,
          fieldVars, pathVars, paramVars, routeVars,
          uniqueVars>>

\* What the actions of one family leave alone: the other families' variables.
notStatus == <<defaultVars, mergeVars, compatVars, cloneVars, fieldVars,
               pathVars, paramVars, routeVars,
               uniqueVars>>

notDefault == <<statusVars, mergeVars, compatVars, cloneVars, fieldVars,
                pathVars, paramVars, routeVars,
                uniqueVars>>

notMerge == <<statusVars, defaultVars, compatVars, cloneVars, fieldVars,
              pathVars, paramVars, routeVars,
              uniqueVars>>

notClone == <<statusVars, defaultVars, mergeVars, fieldVars, pathVars,
              paramVars, routeVars,
              uniqueVars>>

notField == <<statusVars, defaultVars, mergeVars, cloneVars, pathVars,
              paramVars, routeVars,
              uniqueVars>>

notPath == <<statusVars, defaultVars, mergeVars, compatVars, cloneVars,
             fieldVars, paramVars, routeVars,
             uniqueVars>>

notParam == <<statusVars, defaultVars, mergeVars, compatVars, cloneVars,
              fieldVars, pathVars, routeVars, uniqueVars>>

notRoute == <<statusVars, defaultVars, mergeVars, compatVars, cloneVars,
              fieldVars, pathVars, paramVars, uniqueVars>>

notUnique == <<statusVars, defaultVars, mergeVars, compatVars, cloneVars,
               fieldVars, pathVars, paramVars, routeVars>>

(***************************************************************************)
(* Strings are sequences of one-character strings.                         *)
(***************************************************************************)
Digits == <<"0", "1", "2", "3", "4", "5", "6", "7", "8", "9">>

DigitValue(c) == (CHOOSE i \in 1..10 : Digits[i] = c) - 1

IsDigit(c) == \E i \in 1..10 : Digits[i] = c

\* str(n) for n >= 0: the decimal digits of n, most significant first.
RECURSIVE DecimalString(_)
DecimalString(n) ==
    IF n < 10 THEN <<Digits[n + 1]>>
    ELSE Append(DecimalString(n \div 10), Digits[(n % 10) + 1])

\* int(s) on a string of the model: an optional "-" and then digits; any
\* other string of the model makes int() raise ValueError (see IsDecimal).
RECURSIVE DigitsToInt(_)
DigitsToInt(s) ==
    IF Len(s) = 0 THEN 0
    ELSE 10 * DigitsToInt(SubSeq(s, 1, Len(s) - 1)) + DigitValue(s[Len(s)])

AllDigits(s) == Len(s) > 0 /\ \A i \in 1..Len(s) : IsDigit(s[i])

IsDecimal(s) ==
    \/ AllDigits(s)
    \/ Len(s) > 1 /\ s[1] = "-" /\ AllDigits(Tail(s))

ParseInt(s) ==
    IF s[1] = "-" THEN 0 - DigitsToInt(Tail(s)) ELSE DigitsToInt(s)

\* str(n)
IntToString(n) ==
    IF n < 0 THEN <<"-">> \o DecimalString(0 - n) ELSE DecimalString(n)

(***************************************************************************)
(* is_body_allowed_for_status_code                                         *)
(***************************************************************************)
MaxCode == 599

\* The integers passed in: a negative one, and 0 .. MaxCode.
StatusCodes == -1..MaxCode

PatternedFields ==
    { <<"d", "e", "f", "a", "u", "l", "t">>,
      <<"1", "X", "X">>, <<"2", "X", "X">>, <<"3", "X", "X">>,
      <<"4", "X", "X">>, <<"5", "X", "X">> }

NoneStatus == [kind |-> "none", s |-> <<>>, n |-> 0]

StrStatus(s) == [kind |-> "str", s |-> s, n |-> 0]

IntStatus(n) == [kind |-> "int", s |-> <<>>, n |-> n]

\* Strings int() rejects.
MalformedStatus == { <<"2", "x", "x">>, <<>>, <<"X", "X">>, <<"-">> }

StatusInputs ==
    {NoneStatus}
    \cup {StrStatus(t) : t \in PatternedFields}
    \cup {StrStatus(t) : t \in MalformedStatus}
    \cup {IntStatus(n) : n \in StatusCodes}
    \cup {StrStatus(IntToString(n)) : n \in StatusCodes}

\* The mutated final test: 304 is not special-cased.
BodyAllowedForInt_No304(current_status_code) ==
    IF ~(current_status_code < 200 \/ current_status_code \in {204})
    THEN "True" ELSE "False"

\* return not (current_status_code < 200 or current_status_code in {204, 304})
BodyAllowedForInt(current_status_code) ==
    IF ~(current_status_code < 200 \/ current_status_code \in {204, 304})
    THEN "True" ELSE "False"

\* The mutated function: the test of the patterned fields comes after int().
is_body_allowed_NoPatterned(sc) ==
    IF sc.kind = "none" THEN "True"
    ELSE IF sc.kind = "int" THEN BodyAllowedForInt(sc.n)
    ELSE IF IsDecimal(sc.s) THEN BodyAllowedForInt(ParseInt(sc.s))
    ELSE "ValueError"

is_body_allowed_for_status_code(sc) ==
    IF sc.kind = "none" THEN "True"
    ELSE IF sc.kind = "str" /\ sc.s \in PatternedFields THEN "True"
    ELSE IF sc.kind = "int" THEN BodyAllowedForInt(sc.n)
    ELSE IF IsDecimal(sc.s) THEN BodyAllowedForInt(ParseInt(sc.s))
    ELSE "ValueError"

StatusStart ==
    /\ status_code \in StatusInputs
    /\ body_allowed = "pending"

CallIsBodyAllowed ==
    /\ body_allowed = "pending"
    /\ body_allowed' = is_body_allowed_for_status_code(status_code)
    /\ UNCHANGED status_code
    /\ UNCHANGED notStatus

StatusNext == CallIsBodyAllowed

StatusIdle == status_code = NoneStatus /\ body_allowed = "idle"

StatusDone == body_allowed # "pending"

\* The status the call was given denotes the integer n, as an int or as
\* its decimal string.
StatusDenotes(n) ==
    status_code = IntStatus(n) \/ status_code = StrStatus(IntToString(n))

\* C1: is_body_allowed_for_status_code returns true for None and for each
\* patterned field ("default", "1XX" .. "5XX"), false for 204 and 304, true
\* for every other status from 200 to MaxCode and false for every status
\* below 200, the status being an int or its decimal string.
C1_BodyAllowedTable ==
    StatusDone =>
        /\ status_code = NoneStatus => body_allowed = "True"
        /\ \A t \in PatternedFields :
               status_code = StrStatus(t) => body_allowed = "True"
        /\ \A n \in StatusCodes :
               StatusDenotes(n) =>
                   body_allowed = IF n = 204 \/ n = 304 THEN "False"
                                  ELSE IF n >= 200 THEN "True"
                                  ELSE "False"

C1_Witness ==
    /\ status_code = StrStatus(<<"3", "0", "4">>)
    /\ body_allowed = "False"

InNoBodyRange(n) == (100 <= n /\ n <= 199) \/ (300 <= n /\ n <= 399)

\* C2 as stated: every 1xx and 3xx status, given as an int, as its decimal
\* string or as the range token "1XX" / "3XX", and the codes 204 and 304,
\* are reported to have no body.
C2_RangesHaveNoBody ==
    StatusDone =>
        /\ \A n \in StatusCodes :
               (StatusDenotes(n) /\ (InNoBodyRange(n) \/ n \in {204, 304}))
                   => body_allowed = "False"
        /\ status_code \in {StrStatus(<<"1", "X", "X">>),
                            StrStatus(<<"3", "X", "X">>)}
               => body_allowed = "False"

\* C2 as amended: no body for every integer status below 200 (the 1xx range
\* included) and for 204 and 304; a body is allowed for the range tokens
\* "1XX" and "3XX" and for every 3xx integer status other than 304.
C2_NoBodyBelow200And204And304 ==
    StatusDone =>
        /\ \A n \in StatusCodes :
               StatusDenotes(n) =>
                   /\ (n < 200 \/ n \in {204, 304}) => body_allowed = "False"
                   /\ (300 <= n /\ n <= 399 /\ n # 304) => body_allowed = "True"
        /\ status_code \in {StrStatus(<<"1", "X", "X">>),
                            StrStatus(<<"3", "X", "X">>)}
               => body_allowed = "True"

C2_Witness ==
    /\ status_code = StrStatus(<<"3", "X", "X">>)
    /\ body_allowed = "True"

(***************************************************************************)
(* get_value_or_default                                                    *)
(*                                                                         *)
(* A candidate is either DefaultPlaceholder(value) or the value itself.    *)
(* Values are Python literals, written as strings.  What the function      *)
(* returns is one of the objects it was given: the model records which     *)
(* (its position) together with the object.                                *)
(***************************************************************************)
MaxItems == 3

Falsy == {"None", "False", "0", "''"}

Values == Falsy \cup {"'x'"}

Candidates == [is_placeholder : BOOLEAN, value : Values]

\* bool(item): DefaultPlaceholder.__bool__ is bool(self.value)
Truthy(item) == item.value \notin Falsy

ItemLists == UNION {[1..n -> Candidates] : n \in 1..MaxItems}

\* The mutated loop: a candidate counts as set only when it is also truthy
\* ("if item and not isinstance(item, DefaultPlaceholder)").
RECURSIVE FirstSetFrom_Truthy(_, _)
FirstSetFrom_Truthy(its, i) ==
    IF i > Len(its) THEN 1
    ELSE IF Truthy(its[i]) /\ ~its[i].is_placeholder THEN i
    ELSE FirstSetFrom_Truthy(its, i + 1)

\* for item in items: if not isinstance(item, DefaultPlaceholder): return item
\* and, past the loop, return first_item.  The result is a position in items.
RECURSIVE FirstSetFrom(_, _)
FirstSetFrom(its, i) ==
    IF i > Len(its) THEN 1
    ELSE IF ~its[i].is_placeholder THEN i
    ELSE FirstSetFrom(its, i + 1)

get_value_or_default(its) ==
    LET r == FirstSetFrom(its, 1)
    IN  [done |-> TRUE, index |-> r, item |-> its[r]]

NotResolved == [done |-> FALSE, index |-> 0,
                item |-> [is_placeholder |-> TRUE, value |-> "None"]]

DefaultStart ==
    /\ items \in ItemLists
    /\ resolved = NotResolved

DefaultIdle ==
    /\ items = <<>>
    /\ resolved = NotResolved

CallGetValueOrDefault ==
    /\ ~resolved.done
    /\ resolved' = get_value_or_default(items)
    /\ UNCHANGED items
    /\ UNCHANGED notDefault

DefaultNext == CallGetValueOrDefault

\* C3: get_value_or_default returns the first candidate that is not a
\* DefaultPlaceholder, the first candidate when all are placeholders, and a
\* falsy value that was set explicitly wins over every later candidate.
C3_FirstSetOrFirstPlaceholder ==
    resolved.done =>
        /\ resolved.index \in 1..Len(items)
        /\ resolved.item = items[resolved.index]
        /\ \A j \in 1..(resolved.index - 1) : items[j].is_placeholder
        /\ resolved.item.is_placeholder =>
               /\ resolved.index = 1
               /\ \A j \in 1..Len(items) : items[j].is_placeholder
        /\ \A i \in 1..Len(items) :
               (~items[i].is_placeholder /\ items[i].value \in Falsy)
                   => resolved.index <= i

C3_Witness ==
    /\ resolved.done
    /\ Len(items) = 3
    /\ items[1].is_placeholder
    /\ ~items[2].is_placeholder /\ items[2].value = "None"
    /\ ~items[3].is_placeholder /\ items[3].value = "'x'"
    /\ resolved.index = 2

(***************************************************************************)
(* deep_dict_update                                                        *)
(*                                                                         *)
(* Dicts are objects: heap maps an address to the dict stored there, and a *)
(* dict maps each key to the value it holds, or to Absent.  A value is a   *)
(* scalar, a list of scalars, or a reference to a dict (its address), so   *)
(* that two dicts can hold the same nested dict.  Lists are values: the    *)
(* code never changes a list in place ("+" builds a new list).             *)
(*                                                                         *)
(* main_dict lives at Top(0); call number c passes either a new            *)
(* update_dict, built at Top(c) with its nested dict at Inner(c), or the   *)
(* update_dict of an earlier call once more.                               *)
(***************************************************************************)
MaxCalls == 2

Keys == {"a", "b"}

\* The keys of a nested dict, and the key that may hold a nested dict.
InnerKeys == {"a"}

Absent == [t |-> "absent", v |-> <<>>]

Scalar(c) == [t |-> "scalar", v |-> <<c>>]

List(c) == [t |-> "list", v |-> <<c>>]

DictRef(addr) == [t |-> "dict", v |-> <<addr>>]

Top(c) == 2 * c + 1

Inner(c) == 2 * c + 2

Addrs == 1..Inner(MaxCalls)

EmptyDict == [k \in Keys |-> Absent]

\* What a key of a dict literal written for call c may hold, nested dicts aside.
Leaves(c) == {Absent, Scalar(c), List(c)}

InnerDicts(c) ==
    {[k \in Keys |-> IF k \in InnerKeys THEN f[k] ELSE Absent] :
        f \in [InnerKeys -> Leaves(c)]}

\* The dict literals of call c: [top, inner], the dict at Top(c) and the one
\* at Inner(c) (EmptyDict when top does not refer to it).
Literals(c) ==
    {[top |-> d, inner |-> EmptyDict] : d \in [Keys -> Leaves(c)]}
    \cup {[top |-> [d EXCEPT ![k] = DictRef(Inner(c))], inner |-> i] :
             d \in [Keys -> Leaves(c)], k \in InnerKeys, i \in InnerDicts(c)}

Has(d, k) == d[k].t # "absent"

IsDict(x) == x.t = "dict"

IsList(x) == x.t = "list"

RECURSIVE deep_dict_update(_, _, _)
RECURSIVE UpdateKeys(_, _, _, _)

\* The mutated loop body: two lists under one key are not concatenated, the
\* update's list replaces main's.
UpdateKey_NoConcat(h, main_dict, update_dict, key) ==
    LET value == h[update_dict][key]
        mine  == h[main_dict][key]
    IN  IF Has(h[main_dict], key) /\ IsDict(mine) /\ IsDict(value)
        THEN deep_dict_update(h, mine.v[1], value.v[1])
        ELSE [h EXCEPT ![main_dict][key] = value]

\* One turn of "for key, value in update_dict.items()": the heap after it.
UpdateKey(h, main_dict, update_dict, key) ==
    LET value == h[update_dict][key]
        mine  == h[main_dict][key]
    IN  IF Has(h[main_dict], key) /\ IsDict(mine) /\ IsDict(value)
        THEN deep_dict_update(h, mine.v[1], value.v[1])
        ELSE IF Has(h[main_dict], key) /\ IsList(mine)
                /\ IsList(h[update_dict][key])
        THEN [h EXCEPT ![main_dict][key] =
                 [t |-> "list", v |-> mine.v \o h[update_dict][key].v]]
        ELSE [h EXCEPT ![main_dict][key] = value]

\* The loop over the keys still to visit.  No turn changes what another
\* turn reads when no dict is held under two keys of one dict, which is so
\* of every heap of this model, so the keys are visited in a fixed order.
UpdateKeys(h, main_dict, update_dict, ks) ==
    IF ks = {} THEN h
    ELSE LET key == CHOOSE k \in ks : TRUE
         IN  UpdateKeys(UpdateKey(h, main_dict, update_dict, key),
                        main_dict, update_dict, ks \ {key})

deep_dict_update(h, main_dict, update_dict) ==
    UpdateKeys(h, main_dict, update_dict,
               {k \in Keys : Has(h[update_dict], k)})

MergeStart ==
    /\ \E lit \in Literals(0) :
           heap = [a \in Addrs |-> IF a = Top(0) THEN lit.top
                                   ELSE IF a = Inner(0) THEN lit.inner
                                   ELSE EmptyDict]
    /\ calls = <<>>

MergeIdle ==
    /\ heap = <<>>
    /\ calls = <<>>

\* deep_dict_update(main_dict, {...}) with a dict literal
CallWithNewDict ==
    /\ Len(calls) < MaxCalls
    /\ LET c == Len(calls) + 1
       IN  \E lit \in Literals(c) :
               LET before == [heap EXCEPT ![Top(c)] = lit.top,
                                          ![Inner(c)] = lit.inner]
               IN  /\ heap' = deep_dict_update(before, Top(0), Top(c))
                   /\ calls' = Append(calls, [upd |-> Top(c), before |-> before])
    /\ UNCHANGED notMerge

\* deep_dict_update(main_dict, d) with the dict d an earlier call was given
CallWithSameDict ==
    /\ Len(calls) < MaxCalls
    /\ \E i \in 1..Len(calls) :
           /\ heap' = deep_dict_update(heap, Top(0), calls[i].upd)
           /\ calls' = Append(calls, [upd |-> calls[i].upd, before |-> heap])
    /\ UNCHANGED notMerge

MergeNext == CallWithNewDict \/ CallWithSameDict

\* The contents of the dict at addr, nested dicts included, without addresses.
RECURSIVE Contents(_, _)
Contents(h, addr) ==
    [k \in Keys |->
        IF IsDict(h[addr][k])
        THEN [t |-> "dict", v |-> <<Contents(h, h[addr][k].v[1])>>]
        ELSE h[addr][k]]

\* The merge C4 describes, on contents.
RECURSIVE Merged(_, _)
Merged(m, u) ==
    [k \in Keys |->
        IF ~Has(u, k) THEN m[k]
        ELSE IF Has(m, k) /\ IsDict(m[k]) /\ IsDict(u[k])
        THEN [t |-> "dict", v |-> <<Merged(m[k].v[1], u[k].v[1])>>]
        ELSE IF Has(m, k) /\ IsList(m[k]) /\ IsList(u[k])
        THEN [t |-> "list", v |-> m[k].v \o u[k].v]
        ELSE u[k]]

LastCall == calls[Len(calls)]

\* C4: after deep_dict_update(main_dict, update_dict), under every key of
\* update_dict main_dict holds the recursive merge of the two dicts when
\* both held a dict there, main's old list followed by update's list when
\* both held a list, and update_dict's value otherwise; every other key of
\* main_dict holds what it held.
C4_DeepMerge ==
    Len(calls) > 0 =>
        LET m    == Contents(LastCall.before, Top(0))
            u    == Contents(LastCall.before, LastCall.upd)
            mNow == Contents(heap, Top(0))
        IN  \A k \in Keys :
                IF ~Has(u, k) THEN mNow[k] = m[k]
                ELSE IF Has(m, k) /\ IsDict(m[k]) /\ IsDict(u[k])
                THEN mNow[k] = [t |-> "dict",
                                v |-> <<Merged(m[k].v[1], u[k].v[1])>>]
                ELSE IF Has(m, k) /\ IsList(m[k]) /\ IsList(u[k])
                THEN mNow[k] = [t |-> "list", v |-> m[k].v \o u[k].v]
                ELSE mNow[k] = u[k]

\* main_dict held {"a": {"a": [0]}, "b": [0]} and was updated with
\* {"a": {"a": [1]}, "b": [1]}.
C4_Witness ==
    /\ Len(calls) = 1
    /\ Contents(calls[1].before, Top(0)) =
           [k \in Keys |-> IF k = "a"
                           THEN [t |-> "dict",
                                 v |-> <<[j \in Keys |-> IF j = "a" THEN List(0)
                                                        ELSE Absent]>>]
                           ELSE List(0)]
    /\ Contents(heap, Top(0)) =
           [k \in Keys |-> IF k = "a"
                           THEN [t |-> "dict",
                                 v |-> <<[j \in Keys |->
                                            IF j = "a"
                                            THEN [t |-> "list", v |-> <<0, 1>>]
                                            ELSE Absent]>>]
                           ELSE [t |-> "list", v |-> <<0, 1>>]]

\* C13: every update_dict passed so far holds, nested dicts and lists
\* included, what it held when it was passed.
C13_UpdateDictsUnchanged ==
    \A i \in 1..Len(calls) :
        Contents(heap, calls[i].upd) = Contents(calls[i].before, calls[i].upd)

\* main_dict had no key "a"; the first call passed {"a": {"a": [1]}}, the
\* second {"a": {"a": [2]}}, and the dict of the first call now holds
\* {"a": {"a": [1, 2]}}.
C13_Witness ==
    /\ Len(calls) = 2
    /\ ~Has(calls[1].before[Top(0)], "a")
    /\ Contents(calls[1].before, Top(1))["a"] =
           [t |-> "dict",
            v |-> <<[k \in Keys |-> IF k = "a" THEN List(1) ELSE Absent]>>]
    /\ calls[2].upd = Top(2)
    /\ Contents(heap, Top(1))["a"] =
           [t |-> "dict",
            v |-> <<[k \in Keys |-> IF k = "a"
                                    THEN [t |-> "list", v |-> <<1, 2>>]
                                    ELSE Absent]>>]

(***************************************************************************)
(* create_response_field and create_cloned_field                           *)
(*                                                                         *)
(* Classes, ModelField objects and FieldInfo objects are objects with an   *)
(* identity: types, fields and infos map an identity to the object's       *)
(* attributes.  An identity is a tuple whose last entry is 0 for an object *)
(* of the declaration and the serial number of its creation otherwise.     *)
(***************************************************************************)
FieldNames == {"x", "y"}

NoType == <<"None", 0>>

NoField == <<"None", "None", 0>>

NoInfo == <<"None", "None", 0>>

\* The declared classes: two models, a pydantic dataclass whose
\* __pydantic_model__ is the first model, and two classes that are no models.
ModelA == <<"A", 0>>

ModelB == <<"B", 0>>

DataclassA == <<"DataclassA", 0>>

IntType == <<"int", 0>>

StrType == <<"str", 0>>

PlainType(t) ==
    [kind |-> "plain", name |-> t[1], base |-> NoType,
     pydantic_model |-> NoType, fields |-> [n \in FieldNames |-> NoField]]

\* The declared ModelField objects: one record for the field itself, one for
\* its sub-field and one for its key field, for each place a field is declared.
Main(slot) == <<slot, "main", 0>>

Sub(slot) == <<slot, "sub", 0>>

Key(slot) == <<slot, "key", 0>>

Containers == {"single", "list", "dict", "keyed"}

\* A declaration of a field: the class it is about and how it is wrapped:
\* T, List[T], Dict[str, T] or Dict[T, int].
Annotations(targets) == [target : targets, container : Containers]

\* The attributes pydantic's analysis of the annotation gives a field.
DeclaredField(slot, name, ann, aliased) ==
    [name |-> name,
     type_ |-> IF ann.container = "keyed" THEN IntType ELSE ann.target,
     has_alias |-> aliased,
     alias |-> IF aliased THEN "aliased_" \o name ELSE name,
     class_validators |-> Main(slot),
     default |-> IF aliased THEN "None" ELSE "0",
     required |-> aliased,
     model_config |-> Main(slot),
     field_info |-> Main(slot),
     allow_none |-> ~aliased,
     validate_always |-> aliased,
     sub_fields |-> IF ann.container = "single" THEN <<>> ELSE <<Sub(slot)>>,
     key_field |-> IF ann.container \in {"dict", "keyed"} THEN Key(slot)
                   ELSE NoField,
     validators |-> <<"validators", Main(slot)>>,
     pre_validators |-> Main(slot),
     post_validators |-> Main(slot),
     parse_json |-> aliased,
     shape |-> IF ann.container = "single" THEN "SHAPE_SINGLETON"
               ELSE IF ann.container = "list" THEN "SHAPE_LIST"
               ELSE "SHAPE_MAPPING"]

\* A sub-field or key field of a declared field: a plain field of one class.
InnerField(id, name, type_) ==
    [name |-> name, type_ |-> type_, has_alias |-> FALSE, alias |-> name,
     class_validators |-> id, default |-> "None", required |-> TRUE,
     model_config |-> id, field_info |-> id, allow_none |-> FALSE,
     validate_always |-> FALSE, sub_fields |-> <<>>, key_field |-> NoField,
     validators |-> <<"validators", id>>, pre_validators |-> id,
     post_validators |-> id, parse_json |-> FALSE,
     shape |-> "SHAPE_SINGLETON"]

\* The ModelField objects one declared field consists of.
FieldObjects(slot, name, ann, aliased) ==
    LET main == (Main(slot) :> DeclaredField(slot, name, ann, aliased))
        sub  == IF ann.container = "single" THEN <<>>
                ELSE (Sub(slot) :> InnerField(Sub(slot), "_" \o name,
                          IF ann.container = "keyed" THEN IntType
                          ELSE ann.target))
        key  == IF ann.container \in {"dict", "keyed"}
                THEN (Key(slot) :> InnerField(Key(slot), "key_" \o name,
                          IF ann.container = "keyed" THEN ann.target
                          ELSE StrType))
                ELSE <<>>
    IN  main @@ sub @@ key

Models == {ModelA, ModelB}

\* The declarations the model starts from: the field to clone ("root"), the
\* field x of each model and, possibly, a field y of the first model.
RootAnnotations == Annotations(Models \cup {DataclassA, IntType})

AxAnnotations == Annotations(Models \cup {IntType})

AyAnnotations ==
    {[target |-> ModelB, container |-> "list"],
     [target |-> ModelA, container |-> "keyed"]}

BxAnnotations ==
    [target : Models \cup {IntType}, container : {"single", "dict"}]

DeclaredTypes(withY) ==
    [t \in {ModelA, ModelB, DataclassA, IntType, StrType} |->
        IF t = ModelA
        THEN [kind |-> "model", name |-> "A", base |-> NoType,
              pydantic_model |-> NoType,
              fields |-> [n \in FieldNames |->
                             IF n = "x" THEN Main("A.x")
                             ELSE IF withY THEN Main("A.y") ELSE NoField]]
        ELSE IF t = ModelB
        THEN [kind |-> "model", name |-> "B", base |-> NoType,
              pydantic_model |-> NoType,
              fields |-> [n \in FieldNames |->
                             IF n = "x" THEN Main("B.x") ELSE NoField]]
        ELSE IF t = DataclassA
        THEN [PlainType(t) EXCEPT !.kind = "dataclass",
                                  !.pydantic_model = ModelA]
        ELSE PlainType(t)]

\* The bound on the depth of the recursion of create_cloned_field: a call
\* nested deeper is given up as not terminating.
MaxCloneDepth == 6

\* ModelField(name=name, type_=type_, class_validators={}, default=Undefined,
\* required=Undefined, model_config=BaseConfig, alias=None,
\* field_info=FieldInfo()): the object pydantic 1 builds for a class that
\* needs no analysis; id is the identity the new object gets, and the
\* objects made for it (its class_validators, its FieldInfo) are named by it.
ModelField(id, name, type_) ==
    [name |-> name, type_ |-> type_, has_alias |-> FALSE, alias |-> name,
     class_validators |-> id, default |-> "None", required |-> TRUE,
     model_config |-> <<"BaseConfig", "None", 0>>, field_info |-> id,
     allow_none |-> FALSE, validate_always |-> FALSE, sub_fields |-> <<>>,
     key_field |-> NoField, validators |-> <<"validators", id>>,
     pre_validators |-> NoField, post_validators |-> NoField,
     parse_json |-> FALSE, shape |-> "SHAPE_SINGLETON"]

\* The state a cloning works on: the objects, cloned_types, the serial number
\* of the next object, the number of calls that are running, and their
\* locals: new_field of each (the innermost last), the use_type
\* and the list a call has just computed, and what the last call returned.
CloningState(ty, fl, inf) ==
    [types |-> ty, fields |-> fl, infos |-> inf,
     cloned_types |-> [t \in DOMAIN ty |-> NoType],
     serial |-> 1, depth |-> 0, diverged |-> FALSE,
     new_fields |-> <<>>, use_type |-> NoType, rets |-> <<>>,
     ret |-> NoField]

\* The order of original_type.__fields__.values(): the order of declaration.
FieldOrder == <<"x", "y">>

\* The copy of a base class's field that a class made by create_model starts
\* with.  create_cloned_field replaces every one of them (lines 113-116) and
\* never reads one.
Inherited(f) == IF f = NoField THEN NoField ELSE <<f[1], "inherited", 0>>

\* create_model(original_type.__name__, __base__=original_type)
create_model(S, original_type) ==
    [kind |-> "model", name |-> S.types[original_type].name,
     base |-> original_type, pydantic_model |-> NoType,
     fields |-> [n \in FieldNames |->
                    Inherited(S.types[original_type].fields[n])]]

\* The mutated lookup: cloned_types is never consulted.
LookupCloned_Forget(S, original_type) == NoType

\* cloned_types.get(original_type)
LookupCloned(S, original_type) == S.cloned_types[original_type]

\* new_field of the call that is running.
NewField(S) == S.new_fields[Len(S.new_fields)]

RECURSIVE create_cloned_field(_, _)
RECURSIVE CloneEach(_, _, _, _)
RECURSIVE CloneTypeFields(_, _, _, _)

\* The list comprehension goes on with the next field.
CloneEachNext(S, fs, i, acc) == CloneEach(S, fs, i + 1, Append(acc, S.ret))

\* [create_cloned_field(f, cloned_types=cloned_types) for f in fs], from the
\* i-th on, acc being the clones made so far: the state after it, the list
\* in rets.
CloneEach(S, fs, i, acc) ==
    IF i > Len(fs) THEN [S EXCEPT !.rets = acc]
    ELSE CloneEachNext(create_cloned_field(S, fs[i]), fs, i, acc)

\* use_type.__fields__[f.name] = <what create_cloned_field(f) returned>
SetTypeField(S, use_type, f) ==
    [S EXCEPT !.types[use_type].fields[S.fields[f].name] = S.ret]

\* for f in original_type.__fields__.values():
\*     use_type.__fields__[f.name] = create_cloned_field(f, ...)
CloneTypeFields(S, original_type, use_type, i) ==
    IF i > Len(FieldOrder) THEN S
    ELSE IF S.types[original_type].fields[FieldOrder[i]] = NoField
    THEN CloneTypeFields(S, original_type, use_type, i + 1)
    ELSE CloneTypeFields(
             SetTypeField(
                 create_cloned_field(
                     S, S.types[original_type].fields[FieldOrder[i]]),
                 use_type, S.types[original_type].fields[FieldOrder[i]]),
             original_type, use_type, i + 1)

\* Lines 103-105: the class of the field, a pydantic dataclass standing for
\* its __pydantic_model__.
OriginalType(S, field) ==
    LET declared_type == S.fields[field].type_
    IN  IF S.types[declared_type].kind = "dataclass"
           /\ S.types[declared_type].pydantic_model # NoType
        THEN S.types[declared_type].pydantic_model
        ELSE declared_type

\* Lines 111-112: the new class, entered in cloned_types.
NewType(S, original_type, use_type) ==
    [S EXCEPT !.serial = @ + 1,
              !.types = @ @@ (use_type :> create_model(S, original_type)),
              !.cloned_types[original_type] = use_type]

\* Lines 106-116: the class the new field is about, left in use_type.
CloneType(S, original_type) ==
    IF S.types[original_type].kind # "model"
    THEN [S EXCEPT !.use_type = original_type]
    ELSE IF LookupCloned(S, original_type) # NoType
    THEN [S EXCEPT !.use_type = LookupCloned(S, original_type)]
    ELSE [CloneTypeFields(
              NewType(S, original_type, <<original_type[1], S.serial>>),
              original_type, <<original_type[1], S.serial>>, 1)
          EXCEPT !.use_type = <<original_type[1], S.serial>>]

\* Lines 117-126: new_field = create_response_field(name=field.name,
\* type_=use_type), and the first attributes copied from field.
CreateNewField(S, field, new_field) ==
    [S EXCEPT
        !.serial = @ + 1,
        !.new_fields = Append(@, new_field),
        !.infos = @ @@ (new_field :> "declared"),
        !.fields = @ @@ (new_field :>
            [ModelField(new_field, S.fields[field].name, S.use_type) EXCEPT
                !.has_alias = S.fields[field].has_alias,
                !.alias = S.fields[field].alias,
                !.class_validators = S.fields[field].class_validators,
                !.default = S.fields[field].default,
                !.required = S.fields[field].required,
                !.model_config = S.fields[field].model_config,
                !.field_info = S.fields[field].field_info,
                !.allow_none = S.fields[field].allow_none,
                !.validate_always = S.fields[field].validate_always])]

\* new_field.sub_fields = <the list just computed>
SetSubFields(S) == [S EXCEPT !.fields[NewField(S)].sub_fields = S.rets]

\* The mutated lines 127-131: the new field keeps the sub-fields of the old.
CloneSubFields_Shared(S, field) ==
    [S EXCEPT !.fields[NewField(S)].sub_fields = S.fields[field].sub_fields]

\* Lines 127-131: if field.sub_fields: new_field.sub_fields = [... clones ...]
CloneSubFields(S, field) ==
    IF S.fields[field].sub_fields = <<>> THEN S
    ELSE SetSubFields(CloneEach(S, S.fields[field].sub_fields, 1, <<>>))

\* new_field.key_field = <what create_cloned_field returned>
SetKeyField(S) == [S EXCEPT !.fields[NewField(S)].key_field = S.ret]

\* Lines 132-135: if field.key_field: new_field.key_field = ... clone ...
CloneKeyField(S, field) ==
    IF S.fields[field].key_field = NoField THEN S
    ELSE SetKeyField(create_cloned_field(S, S.fields[field].key_field))

\* Lines 136-140: the last attributes copied from field.
CopyLastAttributes(S, field) ==
    [S EXCEPT
        !.fields[NewField(S)].validators = S.fields[field].validators,
        !.fields[NewField(S)].pre_validators = S.fields[field].pre_validators,
        !.fields[NewField(S)].post_validators = S.fields[field].post_validators,
        !.fields[NewField(S)].parse_json = S.fields[field].parse_json,
        !.fields[NewField(S)].shape = S.fields[field].shape]

\* new_field.populate_validators(): validators are built anew from the
\* field's class_validators.
populate_validators(S) ==
    [S EXCEPT !.fields[NewField(S)].validators =
                  <<"validators", S.fields[NewField(S)].class_validators>>]

\* return new_field
ReturnNewField(S) ==
    [S EXCEPT !.ret = NewField(S),
              !.new_fields = SubSeq(@, 1, Len(@) - 1),
              !.depth = @ - 1]

\* Lines 117-142, the class to use being in use_type.
CloneWithType(S, field) ==
    ReturnNewField(
        populate_validators(
            CopyLastAttributes(
                CloneKeyField(
                    CloneSubFields(
                        CreateNewField(S, field,
                                       <<field[1], field[2], S.serial>>),
                        field),
                    field),
                field)))

\* create_cloned_field with PYDANTIC_V2 false (lines 100-142).  A call
\* nested deeper than MaxCloneDepth returns at once and marks the cloning as
\* diverged.
create_cloned_field(S, field) ==
    IF S.depth = MaxCloneDepth
    THEN [S EXCEPT !.diverged = TRUE, !.ret = NoField]
    ELSE CloneWithType(
             CloneType([S EXCEPT !.depth = @ + 1], OriginalType(S, field)),
             field)

NotCloned ==
    [done |-> FALSE, diverged |-> FALSE, field |-> NoField, annotated |-> "no"]

CloneStart ==
    /\ PYDANTIC_V2 \in BOOLEAN
    /\ \E root \in RootAnnotations, ax \in AxAnnotations,
          bx \in BxAnnotations, withY \in BOOLEAN, ay \in AyAnnotations :
           /\ types = DeclaredTypes(withY)
           /\ fields = FieldObjects("root", "root", root, FALSE)
                       @@ FieldObjects("A.x", "x", ax, TRUE)
                       @@ FieldObjects("B.x", "x", bx, FALSE)
                       @@ (IF withY THEN FieldObjects("A.y", "y", ay, TRUE)
                           ELSE <<>>)
    /\ infos = [i \in DOMAIN fields |-> "declared"]
    /\ declared = [types |-> types, fields |-> fields, infos |-> infos]
    /\ cloned = NotCloned

CompatIdle == PYDANTIC_V2 = FALSE

CloneIdle ==
    /\ types = <<>>
    /\ fields = <<>>
    /\ infos = <<>>
    /\ declared = <<>>
    /\ cloned = NotCloned

\* create_cloned_field(field) on the declared field "root"
CallCreateClonedField ==
    /\ ~cloned.done
    /\ IF PYDANTIC_V2
       THEN \* if PYDANTIC_V2: return field
            /\ cloned' = [done |-> TRUE, diverged |-> FALSE,
                          field |-> Main("root"), annotated |-> "no"]
            /\ UNCHANGED <<types, fields, infos>>
       ELSE LET S == create_cloned_field(CloningState(types, fields, infos),
                                         Main("root"))
            IN  /\ cloned' = [done |-> TRUE, diverged |-> S.diverged,
                              field |-> S.ret,
                              annotated |-> "no"]
                /\ types' = S.types
                /\ fields' = S.fields
                /\ infos' = S.infos
    /\ UNCHANGED <<PYDANTIC_V2, declared>>
    /\ UNCHANGED notClone

\* The class whose __fields__ are the fields nested in a field of class t.
ModelOf(t) ==
    IF types[t].kind = "dataclass" /\ types[t].pydantic_model # NoType
    THEN types[t].pydantic_model ELSE t

IsField(f) == f \in DOMAIN fields

NestedNames(f) ==
    {n \in FieldNames : types[ModelOf(fields[f].type_)].fields[n] # NoField}

\* What is reached from a set of fields in one step: their sub-fields, their
\* key fields and the fields of their classes.
FieldsNextTo(F) ==
    UNION {{fields[f].sub_fields[i] : i \in DOMAIN fields[f].sub_fields}
           \cup ({fields[f].key_field} \ {NoField})
           \cup {types[ModelOf(fields[f].type_)].fields[n] : n \in NestedNames(f)}
           : f \in F \cap DOMAIN fields}

\* The fields reachable from a field, itself included.
RECURSIVE FieldsFrom(_)
FieldsFrom(F) ==
    LET G == F \cup FieldsNextTo(F)
    IN  IF G = F THEN F ELSE FieldsFrom(G)

\* The model classes of the fields reachable from a field.
ModelsFrom(f) ==
    {t \in {ModelOf(fields[g].type_) : g \in FieldsFrom({f}) \cap DOMAIN fields} :
        types[t].kind = "model"}

\* The caller sets an attribute of a field it reaches from the clone.
AnnotateField ==
    /\ cloned.done /\ ~cloned.diverged /\ cloned.annotated = "no"
    /\ \E g \in FieldsFrom({cloned.field}) :
           fields' = [fields EXCEPT ![g].alias = "annotated"]
    /\ cloned' = [cloned EXCEPT !.annotated = "field"]
    /\ UNCHANGED <<PYDANTIC_V2, types, infos, declared>>
    /\ UNCHANGED notClone

\* The caller removes a field from a model class it reaches from the clone.
AnnotateType ==
    /\ cloned.done /\ ~cloned.diverged /\ cloned.annotated = "no"
    /\ \E t \in ModelsFrom(cloned.field) :
           \E n \in {m \in FieldNames : types[t].fields[m] # NoField} :
               types' = [types EXCEPT ![t].fields[n] = NoField]
    /\ cloned' = [cloned EXCEPT !.annotated = "type"]
    /\ UNCHANGED <<PYDANTIC_V2, fields, infos, declared>>
    /\ UNCHANGED notClone

\* The caller changes the FieldInfo object of a field it reaches from the
\* clone (field.field_info.description = ...).
AnnotateFieldInfo ==
    /\ cloned.done /\ ~cloned.diverged /\ cloned.annotated = "no"
    /\ \E g \in FieldsFrom({cloned.field}) :
           infos' = [infos EXCEPT ![fields[g].field_info] = "annotated"]
    /\ cloned' = [cloned EXCEPT !.annotated = "info"]
    /\ UNCHANGED <<PYDANTIC_V2, types, fields, declared>>
    /\ UNCHANGED notClone

CloneNext ==
    \/ CallCreateClonedField
    \/ AnnotateField
    \/ AnnotateType
    \/ AnnotateFieldInfo

\* The fields next to the pair <<f, g>>: sub-field by sub-field, key field
\* by key field and, name by name, the fields of the two fields' classes.
PairsNextTo(p) ==
    LET f == p[1]
        g == p[2]
    IN  IF ~IsField(f) \/ ~IsField(g) THEN {}
        ELSE {<<fields[f].sub_fields[i], fields[g].sub_fields[i]>> :
                 i \in DOMAIN fields[f].sub_fields
                       \cap DOMAIN fields[g].sub_fields}
             \cup (IF fields[f].key_field # NoField
                      /\ fields[g].key_field # NoField
                   THEN {<<fields[f].key_field, fields[g].key_field>>}
                   ELSE {})
             \cup {<<types[ModelOf(fields[f].type_)].fields[n],
                     types[ModelOf(fields[g].type_)].fields[n]>> :
                      n \in NestedNames(f) \cap NestedNames(g)}

\* Every pair of fields met when the two fields are walked side by side.
RECURSIVE PairsFrom(_)
PairsFrom(P) ==
    LET Q == P \cup UNION {PairsNextTo(p) : p \in P}
    IN  IF Q = P THEN P ELSE PairsFrom(Q)

\* The two fields agree in what C5 lists, at this level.
SameAtThisLevel(f, g) ==
    /\ IsField(f) /\ IsField(g)
    /\ fields[f].name = fields[g].name
    /\ fields[f].alias = fields[g].alias
    /\ fields[f].default = fields[g].default
    /\ fields[f].required = fields[g].required
    /\ fields[f].shape = fields[g].shape
    /\ Len(fields[f].sub_fields) = Len(fields[g].sub_fields)
    /\ (fields[f].key_field = NoField) = (fields[g].key_field = NoField)
    /\ NestedNames(f) = NestedNames(g)

StructurallyEqual(f, g) ==
    \A p \in PairsFrom({<<f, g>>}) : SameAtThisLevel(p[1], p[2])

\* C5: create_cloned_field terminates, also for self-referential and
\* mutually recursive models, and the field it returns is structurally
\* equal to the original: same name, alias, default, required flag and
\* shape, and the same nested field names, at every level.
C5_CloneTerminatesStructurallyEqual ==
    (cloned.done /\ cloned.annotated = "no") =>
        /\ ~cloned.diverged
        /\ StructurallyEqual(Main("root"), cloned.field)

\* A field of the model A was cloned, A's field x being a list of A and its
\* field y a mapping keyed by A; B refers back to A.
C5_Witness ==
    /\ cloned.done /\ ~PYDANTIC_V2
    /\ cloned.field # Main("root")
    /\ fields[Main("root")].type_ = ModelA
    /\ fields[Main("A.x")].type_ = ModelA
    /\ fields[Main("A.x")].shape = "SHAPE_LIST"
    /\ types[ModelA].fields["y"] # NoField
    /\ fields[Key("A.y")].type_ = ModelA
    /\ fields[Main("B.x")].type_ = ModelA
    /\ fields[cloned.field].type_ \notin DOMAIN declared.types

\* The model A refers to B and B back to A.
C5_WitnessMutual ==
    /\ cloned.done /\ ~PYDANTIC_V2
    /\ fields[Main("root")].type_ = ModelB
    /\ fields[Main("B.x")].type_ = ModelA
    /\ fields[Main("A.x")].type_ = ModelB
    /\ Cardinality(PairsFrom({<<Main("root"), cloned.field>>})) > 3

DeclaredFieldsUnchanged ==
    \A f \in DOMAIN declared.fields : fields[f] = declared.fields[f]

DeclaredTypesUnchanged ==
    \A c \in DOMAIN declared.types : types[c] = declared.types[c]

DeclaredInfosUnchanged ==
    \A i \in DOMAIN declared.infos : infos[i] = declared.infos[i]

\* The fields and model classes reached from the clone are none of the
\* declaration's.
CloneIsApart ==
    /\ FieldsFrom({cloned.field}) \cap DOMAIN declared.fields = {}
    /\ ModelsFrom(cloned.field) \cap DOMAIN declared.types = {}

\* C6 as stated: the field returned and every model class, sub-field and
\* key field reached from it are other objects than the declaration's, no
\* change made to the clone or to an object reached from it changes the
\* declaration, and the cloning leaves the declaration as it was.
C6_DeepCopy ==
    cloned.done =>
        /\ CloneIsApart
        /\ DeclaredFieldsUnchanged
        /\ DeclaredTypesUnchanged
        /\ DeclaredInfosUnchanged

\* C6 as amended: with pydantic 1 the field returned and every model class,
\* sub-field and key field reached from it are new objects, and setting an
\* attribute of such a field or changing the fields of such a class leaves
\* the declaration's fields and classes as they were; with pydantic 2 the
\* field returned is the declared field itself; and in both cases the
\* cloning changes no object of the declaration.
C6_NewFieldsAndClassesWithPydantic1 ==
    cloned.done =>
        /\ ~PYDANTIC_V2 =>
               /\ CloneIsApart
               /\ DeclaredFieldsUnchanged
               /\ DeclaredTypesUnchanged
        /\ PYDANTIC_V2 => cloned.field = Main("root")
        /\ cloned.annotated = "no" =>
               /\ DeclaredFieldsUnchanged
               /\ DeclaredTypesUnchanged
               /\ DeclaredInfosUnchanged

\* With pydantic 1, a field nested in the clone of Dict[str, A] was given
\* another alias.
C6_Witness ==
    /\ cloned.done /\ ~PYDANTIC_V2
    /\ cloned.annotated = "field"
    /\ fields[Main("root")].type_ = ModelA
    /\ fields[Main("root")].key_field # NoField
    /\ \E g \in FieldsFrom({cloned.field}) :
           /\ g # cloned.field
           /\ fields[g].alias = "annotated"

(***************************************************************************)
(* create_response_field                                                   *)
(*                                                                         *)
(* ModelField is pydantic's (pydantic 1) or fastapi._compat's (pydantic 2) *)
(* constructor.  Whether it builds the field or raises is decided by the   *)
(* class the field is to be about: "int" and "Item" can be validated,      *)
(* "Response" cannot (RuntimeError or PydanticSchemaGenerationError), and  *)
(* "Broken" makes the constructor raise an error of another kind.          *)
(***************************************************************************)
FieldTypes == {"int", "Item", "Response", "Broken"}

\* What ModelField(**kwargs) may do for a field about the class t.
ModelFieldOutcomes(t) ==
    IF t = "Response" THEN {"RuntimeError", "PydanticSchemaGenerationError"}
    ELSE IF t = "Broken" THEN {"TypeError"}
    ELSE {"ok"}

\* The arguments: field_info is "None" or the annotation of the FieldInfo
\* passed; class_validators and model_config are passed on as they are.
FieldArgs ==
    [name : {"item"}, type_ : FieldTypes, default : {"Undefined", "0"},
     required : {"Undefined", "True"}, alias : {"None", "alias"},
     field_info : {"None", "int", "Response"}]

\* Lines 60-78: the keyword arguments ModelField is called with.  With
\* pydantic 2 they are name and field_info alone, and field_info is the one
\* passed or FieldInfo(annotation=type_, default=default, alias=alias).
ModelFieldKwargs(v2, args) ==
    IF v2
    THEN [name |-> args.name,
          field_info |-> IF args.field_info # "None"
                         THEN [given |-> TRUE, annotation |-> args.field_info,
                               default |-> "Undefined", alias |-> "None"]
                         ELSE [given |-> FALSE, annotation |-> args.type_,
                               default |-> args.default, alias |-> args.alias],
          type_ |-> "unset", default |-> "unset", required |-> "unset",
          alias |-> "unset"]
    ELSE [name |-> args.name,
          field_info |-> IF args.field_info # "None"
                         THEN [given |-> TRUE, annotation |-> args.field_info,
                               default |-> "Undefined", alias |-> "None"]
                         ELSE [given |-> FALSE, annotation |-> "unset",
                               default |-> "Undefined", alias |-> "None"],
          type_ |-> args.type_, default |-> args.default,
          required |-> args.required, alias |-> args.alias]

\* The class the field ModelField builds is about: type_ when it is passed,
\* the annotation of field_info otherwise.
FieldClass(kwargs) ==
    IF kwargs.type_ # "unset" THEN kwargs.type_ ELSE kwargs.field_info.annotation

\* except (RuntimeError, PydanticSchemaGenerationError):
Caught(error) == error \in {"RuntimeError", "PydanticSchemaGenerationError"}

NoResult ==
    [kind |-> "pending", field |-> <<>>, error |-> "None", names |-> "None",
     construction |-> "None"]

\* Lines 79-90: what create_response_field does when ModelField(**kwargs)
\* ends as outcome says.  construction records that outcome.
create_response_field(v2, args, outcome) ==
    IF outcome = "ok"
    THEN [kind |-> "returned",
          field |-> <<[ModelFieldKwargs(v2, args) EXCEPT
                          !.type_ = FieldClass(ModelFieldKwargs(v2, args))]>>,
          error |-> "None", names |-> "None", construction |-> outcome]
    ELSE IF Caught(outcome)
    THEN [kind |-> "raised", field |-> <<>>, error |-> "FastAPIError",
          names |-> args.type_, construction |-> outcome]
    ELSE [kind |-> "raised", field |-> <<>>, error |-> outcome,
          names |-> "None", construction |-> outcome]

FieldStart ==
    /\ PYDANTIC_V2 \in BOOLEAN
    /\ field_args \in FieldArgs
    /\ field_result = NoResult

FieldIdle ==
    /\ field_args = <<>>
    /\ field_result = NoResult

CallCreateResponseField ==
    /\ field_result.kind = "pending"
    /\ \E outcome \in ModelFieldOutcomes(
                          FieldClass(ModelFieldKwargs(PYDANTIC_V2, field_args))) :
           field_result' = create_response_field(PYDANTIC_V2, field_args, outcome)
    /\ UNCHANGED <<PYDANTIC_V2, field_args>>
    /\ UNCHANGED notField

FieldNext == CallCreateResponseField

FieldDone == field_result.kind # "pending"

\* What C7 and its amendment share: a field is returned only when it was
\* built, and it has the given name; FastAPIError is raised exactly when
\* the construction raised RuntimeError or PydanticSchemaGenerationError,
\* and neither of the two is ever what the caller sees.
ConstructionErrorsBecomeFastAPIError ==
    /\ field_result.kind \in {"returned", "raised"}
    /\ field_result.kind = "returned" <=> field_result.construction = "ok"
    /\ field_result.kind = "returned" =>
           /\ Len(field_result.field) = 1
           /\ field_result.field[1].name = field_args.name
    /\ field_result.kind = "raised" => field_result.field = <<>>
    /\ field_result.error = "FastAPIError" <=>
           field_result.construction
               \in {"RuntimeError", "PydanticSchemaGenerationError"}
    /\ field_result.error
           \notin {"RuntimeError", "PydanticSchemaGenerationError"}

\* C7 as stated: the field returned is built from the given name and type,
\* and the FastAPIError raised names the type that cannot be represented.
C7_FieldOrFastAPIError ==
    FieldDone =>
        /\ ConstructionErrorsBecomeFastAPIError
        /\ field_result.kind = "returned" =>
               field_result.field[1].type_ = field_args.type_
        /\ field_result.error = "FastAPIError" =>
               /\ field_result.names = field_args.type_
               /\ ModelFieldOutcomes(field_result.names) # {"ok"}

\* C7, what the code does: the field returned is built from the given name
\* and from the given type, or, with pydantic 2 and a field_info passed by
\* the caller, from the annotation of that field_info; the FastAPIError
\* raised names the type_ argument, which in that one case need not be the
\* type that cannot be represented.
C7_CodeBuildsFromFieldInfo ==
    FieldDone =>
        /\ ConstructionErrorsBecomeFastAPIError
        /\ field_result.kind = "returned" =>
               field_result.field[1].type_ =
                   IF PYDANTIC_V2 /\ field_args.field_info # "None"
                   THEN field_args.field_info ELSE field_args.type_
        /\ field_result.error = "FastAPIError" =>
               /\ field_result.names = field_args.type_
               /\ ~(PYDANTIC_V2 /\ field_args.field_info # "None")
                      => ModelFieldOutcomes(field_result.names) # {"ok"}

\* With pydantic 2, type_ Response and a field_info about int, a field was
\* returned: the type that cannot be represented raised nothing.
C7_Witness ==
    /\ PYDANTIC_V2
    /\ field_args.type_ = "Response" /\ field_args.field_info = "int"
    /\ field_result.kind = "returned"
    /\ field_result.field[1].type_ = "int"

(***************************************************************************)
(* get_path_param_names                                                    *)
(*                                                                         *)
(* re.findall("{(.*?)}", path) scans the path from left to right.  At a    *)
(* "{" the lazy group ends at the first "}" that follows, and "." matches  *)
(* no line break, so there is a match only when no line break lies         *)
(* between the two; after a match the scan goes on behind its "}", and     *)
(* otherwise at the next character.                                        *)
(***************************************************************************)
MaxPathLen == 6

PathChars == {"{", "}", "a", "b", "\n"}

\* "/items/{id}/sub/{name}"
ExamplePath ==
    <<"/", "i", "t", "e", "m", "s", "/", "{", "i", "d", "}", "/", "s", "u",
      "b", "/", "{", "n", "a", "m", "e", "}">>

Paths ==
    UNION {[1..n -> PathChars] : n \in 0..MaxPathLen} \cup {ExamplePath}

\* The mutated group, greedy ("{(.*)}"): where the match that starts at s[i]
\* ends, 0 when there is none.
MatchEnd_Greedy(s, i) ==
    LET closes == {j \in (i + 1)..Len(s) :
                      /\ s[j] = "}"
                      /\ \A k \in (i + 1)..(j - 1) : s[k] # "\n"}
    IN  IF s[i] = "{" /\ closes # {}
        THEN CHOOSE j \in closes : \A k \in closes : k <= j
        ELSE 0

\* Where the match of "{(.*?)}" that starts at s[i] ends, 0 when there is none.
MatchEnd(s, i) ==
    LET closes == {j \in (i + 1)..Len(s) : s[j] = "}"}
        first  == CHOOSE j \in closes : \A k \in closes : j <= k
    IN  IF s[i] = "{" /\ closes # {}
           /\ \A k \in (i + 1)..(first - 1) : s[k] # "\n"
        THEN first
        ELSE 0

\* re.findall from position i on: the groups of the matches, in order.
RECURSIVE FindAll(_, _)
FindAll(s, i) ==
    IF i > Len(s) THEN <<>>
    ELSE IF MatchEnd(s, i) # 0
    THEN <<SubSeq(s, i + 1, MatchEnd(s, i) - 1)>> \o FindAll(s, MatchEnd(s, i) + 1)
    ELSE FindAll(s, i + 1)

\* set(re.findall("{(.*?)}", path))
get_path_param_names(s) ==
    {FindAll(s, 1)[i] : i \in 1..Len(FindAll(s, 1))}

PathStart ==
    /\ path \in Paths
    /\ param_names = {<<"pending">>}

PathIdle ==
    /\ path = <<>>
    /\ param_names = {<<"pending">>}

CallGetPathParamNames ==
    /\ param_names = {<<"pending">>}
    /\ param_names' = get_path_param_names(path)
    /\ UNCHANGED path
    /\ UNCHANGED notPath

PathNext == CallGetPathParamNames

PathDone == param_names # {<<"pending">>}

Opens == {i \in 1..Len(path) : path[i] = "{"}

\* The first "}" behind position i of the path, 0 when there is none.
NextClose(i) ==
    IF \E j \in (i + 1)..Len(path) : path[j] = "}"
    THEN CHOOSE j \in (i + 1)..Len(path) :
             /\ path[j] = "}"
             /\ \A k \in (i + 1)..(j - 1) : path[k] # "}"
    ELSE 0

Between(i) == SubSeq(path, i + 1, NextClose(i) - 1)

\* C8 as stated: the names returned are exactly the strings between a "{"
\* and the next "}" that follows it; a name that occurs several times is
\* there once, a path without braces has none, and the example path has
\* "id" and "name".
C8_NamesBetweenBraces ==
    PathDone =>
        /\ param_names = {Between(i) : i \in {o \in Opens : NextClose(o) # 0}}
        /\ Opens = {} => param_names = {}
        /\ path = ExamplePath =>
               param_names = {<<"i", "d">>, <<"n", "a", "m", "e">>}

\* The "{" that open a name: those with a "}" behind them and no line break
\* before it that do not lie inside a name opened further left.
OpensName(M, i) ==
    /\ NextClose(i) # 0
    /\ \A k \in (i + 1)..(NextClose(i) - 1) : path[k] # "\n"
    /\ \A o \in M : o < i => NextClose(o) < i

\* C8 as amended: the names returned are exactly the strings between a "{"
\* and the next "}" that follows it on the same line, the path being read
\* from left to right and a "{" inside a name opening no name of its own;
\* a name that occurs several times is there once, a path without braces
\* has none, and the example path has "id" and "name".
C8_NamesBetweenBracesLeftToRight ==
    PathDone =>
        /\ \E M \in SUBSET Opens :
               /\ \A i \in Opens : i \in M <=> OpensName(M, i)
               /\ param_names = {Between(i) : i \in M}
        /\ Opens = {} => param_names = {}
        /\ path = ExamplePath =>
               param_names = {<<"i", "d">>, <<"n", "a", "m", "e">>}

\* "{a}{a}" has the one name "a".
C8_Witness ==
    /\ path = <<"{", "a", "}", "{", "a", "}">>
    /\ param_names = {<<"a">>}

(***************************************************************************)
(* The declarators of param_functions.py                                   *)
(*                                                                         *)
(* Every value is written as Python writes it ("None", "True", "5").  A    *)
(* call gives some of the options by keyword; Path, Query, Header, Cookie, *)
(* Body, Form and File also take keywords outside their signature, their   *)
(* "extra" keywords, for which "extra" stands.  The classes of             *)
(* fastapi.params keep what they are called with.                          *)
(***************************************************************************)
MaxGiven == 2

\* params.Path(...), params.Query(...), ...: the declaration, tagged with
\* the class that made it.
params(kind, kwargs) == [source |-> kind, options |-> kwargs]

\* The call binds the keywords given and the signature's defaults for the
\* rest, and every one of them is passed on under its own name.
Bind(signature, args) ==
    [o \in DOMAIN signature \cup DOMAIN args |->
        IF o \in DOMAIN args THEN args[o] ELSE signature[o]]

\* default and the keyword-only options every parameter declarator has.
Constraints ==
    [default |-> "Undefined", alias |-> "None", title |-> "None",
     description |-> "None", gt |-> "None", ge |-> "None", lt |-> "None",
     le |-> "None", min_length |-> "None", max_length |-> "None",
     regex |-> "None", example |-> "Undefined", examples |-> "None"]

InSchema == [deprecated |-> "None", include_in_schema |-> "True"]

Path(args) == params("Path", Bind(Constraints @@ InSchema, args))

Query(args) == params("Query", Bind(Constraints @@ InSchema, args))

\* The mutated Header: convert_underscores is not passed on.
Header_KeepsUnderscores(args) ==
    params("Header",
           [Bind(Constraints @@ InSchema @@ [convert_underscores |-> "True"],
                 args) EXCEPT !.convert_underscores = "True"])

Header(args) ==
    params("Header",
           Bind(Constraints @@ InSchema @@ [convert_underscores |-> "True"],
                args))

Cookie(args) == params("Cookie", Bind(Constraints @@ InSchema, args))

Body(args) ==
    params("Body",
           Bind(Constraints
                    @@ [embed |-> "False", media_type |-> "application/json"],
                args))

Form(args) ==
    params("Form",
           Bind(Constraints
                    @@ [media_type |-> "application/x-www-form-urlencoded"],
                args))

File(args) ==
    params("File",
           Bind(Constraints @@ [media_type |-> "multipart/form-data"], args))

Depends(args) ==
    params("Depends",
           Bind([dependency |-> "None", use_cache |-> "True"], args))

Security(args) ==
    params("Security",
           Bind([dependency |-> "None", scopes |-> "None",
                 use_cache |-> "True"], args))

Declarators ==
    {"Path", "Query", "Header", "Cookie", "Body", "Form", "File", "Depends",
     "Security"}

Declare(kind, args) ==
    CASE kind = "Path" -> Path(args)
      [] kind = "Query" -> Query(args)
      [] kind = "Header" -> Header(args)
      [] kind = "Cookie" -> Cookie(args)
      [] kind = "Body" -> Body(args)
      [] kind = "Form" -> Form(args)
      [] kind = "File" -> File(args)
      [] kind = "Depends" -> Depends(args)
      [] kind = "Security" -> Security(args)

\* The keywords a call of the declarator may give.
Keywords(kind) ==
    IF kind \in {"Depends", "Security"}
    THEN DOMAIN Declare(kind, <<>>).options
    ELSE DOMAIN Declare(kind, <<>>).options \cup {"extra"}

\* The values a call may give for a keyword.
Given(o) ==
    IF o \in {"gt", "ge", "lt", "le", "min_length", "max_length"}
    THEN {"1", "5"}
    ELSE IF o \in {"deprecated", "include_in_schema", "convert_underscores",
                   "embed", "use_cache"}
    THEN {"True", "False"}
    ELSE {"v", "w"}

\* The calls with at most MaxGiven keywords.
RECURSIVE CallsWith(_, _)
CallsWith(keywords, n) ==
    IF n = 0 \/ keywords = {} THEN {<<>>}
    ELSE LET o == CHOOSE k \in keywords : TRUE
         IN  CallsWith(keywords \ {o}, n)
                 \cup {(o :> v) @@ rest :
                          v \in Given(o),
                          rest \in CallsWith(keywords \ {o}, n - 1)}

NotDeclared == [source |-> "pending", options |-> <<>>]

ParamStart ==
    /\ \E kind \in Declarators :
           \E args \in CallsWith(Keywords(kind), MaxGiven) :
               declarator = [kind |-> kind, args |-> args]
    /\ declaration = NotDeclared

ParamIdle ==
    /\ declarator = <<>>
    /\ declaration = NotDeclared

CallDeclarator ==
    /\ declaration = NotDeclared
    /\ declaration' = Declare(declarator.kind, declarator.args)
    /\ UNCHANGED declarator
    /\ UNCHANGED notParam

ParamNext == CallDeclarator

ParamDone == declaration # NotDeclared

\* The default the declarator kind has for the option o.
DefaultWhenOmitted(kind, o) ==
    CASE o \in {"default", "example"} -> "Undefined"
      [] o \in {"include_in_schema", "convert_underscores", "use_cache"} -> "True"
      [] o = "embed" -> "False"
      [] o = "media_type" /\ kind = "Body" -> "application/json"
      [] o = "media_type" /\ kind = "Form" -> "application/x-www-form-urlencoded"
      [] o = "media_type" /\ kind = "File" -> "multipart/form-data"
      [] OTHER -> "None"

\* The options the declarator kind has besides those every parameter
\* declarator has.
OwnOptions(kind) ==
    CASE kind \in {"Path", "Query", "Cookie"} -> {"deprecated", "include_in_schema"}
      [] kind = "Header" -> {"deprecated", "include_in_schema", "convert_underscores"}
      [] kind = "Body" -> {"embed", "media_type"}
      [] kind \in {"Form", "File"} -> {"media_type"}
      [] kind = "Depends" -> {"dependency", "use_cache"}
      [] kind = "Security" -> {"dependency", "scopes", "use_cache"}

\* C9: the declaration a declarator returns is tagged with the declarator's
\* own kind; every option given holds the value given, every option of the
\* declarator that was not given holds the declarator's default, and there
\* is nothing else in it, whatever the values are next to each other.
C9_DeclaratorsForward ==
    ParamDone =>
        /\ declaration.source = declarator.kind
        /\ OwnOptions(declarator.kind) \subseteq DOMAIN declaration.options
        /\ declarator.kind \notin {"Depends", "Security"} =>
               DOMAIN Constraints \subseteq DOMAIN declaration.options
        /\ \A o \in DOMAIN declaration.options :
               IF o \in DOMAIN declarator.args
               THEN declaration.options[o] = declarator.args[o]
               ELSE /\ declaration.options[o] = DefaultWhenOmitted(declarator.kind, o)
                    /\ o \in OwnOptions(declarator.kind) \cup DOMAIN Constraints
        /\ DOMAIN declarator.args \subseteq DOMAIN declaration.options

\* Header was called with a lower bound above the upper bound and nothing
\* else: the declaration holds the two as given and the defaults.
C9_Witness ==
    /\ declarator.kind = "Header"
    /\ DOMAIN declarator.args = {"gt", "lt"}
    /\ declaration.source = "Header"
    /\ declaration.options.convert_underscores = "True"
    /\ declaration.options.gt = "5"
    /\ declaration.options.lt = "1"
    /\ declaration.options.include_in_schema = "True"

(***************************************************************************)
(* Response validation (tests/test_validate_response.py)                   *)
(*                                                                         *)
(* A GET on a route calls the route's handler and validates what it        *)
(* returns against the route's response_model.  Python values are records: *)
(* py is the type, n the number (a float counts in tenths), s the          *)
(* characters of a str and items the elements of a list.                   *)
(***************************************************************************)
MaxListLen == 2

PyValue(py, n, s, elements) ==
    [py |-> py, n |-> n, s |-> s, items |-> elements]

NoKey == PyValue("absent", 0, <<>>, <<>>)

PyNone == PyValue("None", 0, <<>>, <<>>)

PyStr(s) == PyValue("str", 0, s, <<>>)

PyInt(n) == PyValue("int", n, <<>>, <<>>)

PyFloat(tenths) == PyValue("float", tenths, <<>>, <<>>)

PyList(elements) == PyValue("list", 0, <<>>, elements)

Invalid == PyValue("invalid", 0, <<>>, <<>>)

foo == <<"f", "o", "o">>

bar == <<"b", "a", "r">>

baz == <<"b", "a", "z">>

\* What a handler returns: None, a dict, or a list of these.
NoneData == [kind |-> "None", dicts |-> <<>>, elems |-> <<>>]

DictData(d) == [kind |-> "dict", dicts |-> <<d>>, elems |-> <<>>]

ListData(elems) == [kind |-> "list", dicts |-> <<>>, elems |-> elems]

InvalidData == [kind |-> "invalid", dicts |-> <<>>, elems |-> <<>>]

\* The dict with the keys given; a key that is not there is NoKey.
ItemDict(name, price, owner_ids) ==
    DictData([name |-> name, price |-> price, owner_ids |-> owner_ids])

\* The mutated handler of /items/invalid: the price is a number.
get_invalid_Priced ==
    ItemDict(PyStr(<<"i", "n", "v", "a", "l", "i", "d">>), PyFloat(10), NoKey)

get_invalid ==
    ItemDict(PyStr(<<"i", "n", "v", "a", "l", "i", "d">>), PyStr(foo), NoKey)

get_invalid_none == NoneData

get_innerinvalid ==
    ItemDict(PyStr(<<"d", "o", "u", "b", "l", "e", " ", "i", "n", "v", "a",
                     "l", "i", "d">>),
             PyStr(foo), PyList(<<PyStr(foo), PyStr(bar)>>))

get_invalidlist ==
    ListData(<<ItemDict(PyStr(foo), NoKey, NoKey),
               ItemDict(PyStr(bar), PyStr(bar), NoKey),
               ItemDict(PyStr(baz), PyStr(baz), NoKey)>>)

\* The dicts handlers of other routes return.
Dicts ==
    {ItemDict(name, price, owner_ids) :
        name \in {NoKey, PyStr(foo)},
        price \in {NoKey, PyNone, PyFloat(10), PyStr(<<"1", ".", "0">>),
                   PyStr(foo)},
        owner_ids \in {NoKey, PyNone, PyList(<<PyInt(1), PyStr(<<"2">>)>>),
                       PyList(<<PyStr(foo), PyStr(bar)>>)}}

Elements == Dicts \cup {NoneData}

Lists == {ListData(l) : l \in UNION {[1..n -> Elements] : n \in 0..MaxListLen}}

Routes ==
    {[path |-> "/items/invalid", response_model |-> "Item",
      returns |-> get_invalid],
     [path |-> "/items/invalidnone", response_model |-> "Item",
      returns |-> get_invalid_none],
     [path |-> "/items/innerinvalid", response_model |-> "Item",
      returns |-> get_innerinvalid],
     [path |-> "/items/invalidlist", response_model |-> "List[Item]",
      returns |-> get_invalidlist]}
    \cup [path : {"/items/other"}, response_model : {"Item"},
          returns : Elements \cup Lists]
    \cup [path : {"/items/otherlist"}, response_model : {"List[Item]"},
          returns : Elements \cup Lists]

\* The strings float() reads in the model: digits, and at most one digit
\* behind a point.
IsFloatLiteral(s) ==
    \/ AllDigits(s)
    \/ /\ Len(s) > 2
       /\ s[Len(s) - 1] = "."
       /\ AllDigits(SubSeq(s, 1, Len(s) - 2))
       /\ IsDigit(s[Len(s)])

\* float(s), in tenths.
ParseFloat(s) ==
    IF AllDigits(s) THEN 10 * DigitsToInt(s)
    ELSE 10 * DigitsToInt(SubSeq(s, 1, Len(s) - 2)) + DigitValue(s[Len(s)])

validate_str(v) == IF v.py = "str" THEN v ELSE Invalid

validate_float(v) ==
    CASE v.py = "float" -> v
      [] v.py = "int" -> PyFloat(10 * v.n)
      [] v.py = "str" /\ IsFloatLiteral(v.s) -> PyFloat(ParseFloat(v.s))
      [] OTHER -> Invalid

validate_int(v) ==
    CASE v.py = "int" -> v
      [] v.py = "float" /\ v.n % 10 = 0 -> PyInt(v.n \div 10)
      [] v.py = "str" /\ IsDecimal(v.s) -> PyInt(ParseInt(v.s))
      [] OTHER -> Invalid

validate_list_of_int(v) ==
    IF v.py # "list" THEN Invalid
    ELSE IF \E i \in 1..Len(v.items) : validate_int(v.items[i]) = Invalid
    THEN Invalid
    ELSE PyList([i \in 1..Len(v.items) |-> validate_int(v.items[i])])

\* A field with the default None: no key and None give None.
validate_optional(validated, v) ==
    IF v.py \in {"absent", "None"} THEN PyNone ELSE validated

\* Item: name: str, price: Optional[float] = None,
\* owner_ids: Optional[List[int]] = None.
validate_Item(data) ==
    IF data.kind # "dict" THEN InvalidData
    ELSE LET d == data.dicts[1]
             item == [name |-> validate_str(d.name),
                      price |-> validate_optional(validate_float(d.price),
                                                  d.price),
                      owner_ids |->
                          validate_optional(validate_list_of_int(d.owner_ids),
                                            d.owner_ids)]
         IN  IF Invalid \in {item.name, item.price, item.owner_ids}
             THEN InvalidData
             ELSE DictData(item)

validate_List_Item(data) ==
    IF data.kind # "list" THEN InvalidData
    ELSE IF \E i \in 1..Len(data.elems) : validate_Item(data.elems[i]) = InvalidData
    THEN InvalidData
    ELSE ListData([i \in 1..Len(data.elems) |-> validate_Item(data.elems[i])])

validate(response_model, data) ==
    IF response_model = "Item" THEN validate_Item(data)
    ELSE validate_List_Item(data)

NoResponse == [status |-> "pending", error |-> "None", body |-> <<>>]

\* What the request ends in: the validation error raised to the caller, or
\* the response with the validated data as its body.
serialize_response(response_model, response_content) ==
    IF validate(response_model, response_content) = InvalidData
    THEN [status |-> "raised", error |-> "ValidationError", body |-> <<>>]
    ELSE [status |-> "responded", error |-> "None",
          body |-> <<validate(response_model, response_content)>>]

RouteStart ==
    /\ route \in Routes
    /\ response = NoResponse

RouteIdle ==
    /\ route = <<>>
    /\ response = NoResponse

\* client.get(route.path)
Get ==
    /\ response = NoResponse
    /\ response' = serialize_response(route.response_model, route.returns)
    /\ UNCHANGED route
    /\ UNCHANGED notRoute

RouteNext == Get

RouteDone == response # NoResponse

\* A value that is no number and cannot be read as one.
NonNumeric(v) ==
    /\ v.py \notin {"float", "int"}
    /\ ~(v.py = "str" /\ IsFloatLiteral(v.s))

\* The data the handler returned is no Item: it is None or a list, it has
\* no name, its price is not numeric, or one of its owner_ids is not.
ReturnsNoItem(data) ==
    \/ data.kind # "dict"
    \/ /\ data.kind = "dict"
       /\ \/ data.dicts[1].name.py # "str"
          \/ /\ data.dicts[1].price.py \notin {"absent", "None"}
             /\ NonNumeric(data.dicts[1].price)
          \/ /\ data.dicts[1].owner_ids.py = "list"
             /\ \E i \in 1..Len(data.dicts[1].owner_ids.items) :
                    NonNumeric(data.dicts[1].owner_ids.items[i])

FailsValidation ==
    IF route.response_model = "Item" THEN ReturnsNoItem(route.returns)
    ELSE \/ route.returns.kind # "list"
         \/ \E i \in 1..Len(route.returns.elems) :
                ReturnsNoItem(route.returns.elems[i])

\* An Item as the response model declares it.
WellFormedItem(data) ==
    /\ data.kind = "dict"
    /\ data.dicts[1].name.py = "str"
    /\ data.dicts[1].price.py \in {"float", "None"}
    /\ \/ data.dicts[1].owner_ids.py = "None"
       \/ /\ data.dicts[1].owner_ids.py = "list"
          /\ \A i \in 1..Len(data.dicts[1].owner_ids.items) :
                 data.dicts[1].owner_ids.items[i].py = "int"

WellFormed(response_model, data) ==
    IF response_model = "Item" THEN WellFormedItem(data)
    ELSE /\ data.kind = "list"
         /\ \A i \in 1..Len(data.elems) : WellFormedItem(data.elems[i])

\* C10: a request to a route whose handler returned data that fails the
\* validation against the response model ends in a ValidationError raised
\* to the caller and without a body; the four routes of the tests end so;
\* and a body that is returned is well formed.
C10_InvalidResponseRaises ==
    RouteDone =>
        /\ FailsValidation =>
               /\ response.status = "raised"
               /\ response.error = "ValidationError"
               /\ response.body = <<>>
        /\ route.path \in {"/items/invalid", "/items/invalidnone",
                           "/items/innerinvalid", "/items/invalidlist"} =>
               response.status = "raised" /\ response.error = "ValidationError"
        /\ response.status = "responded" =>
               /\ Len(response.body) = 1
               /\ WellFormed(route.response_model, response.body[1])

\* The list of /items/invalidlist, whose second element has the price
\* "bar", ended in the ValidationError.
C10_Witness ==
    /\ route.path = "/items/invalidlist"
    /\ route.returns.elems[2].dicts[1].price = PyStr(bar)
    /\ response.status = "raised"
    /\ response.error = "ValidationError"
    /\ response.body = <<>>

(***************************************************************************)
(* Response serialization (tests/test_serialize_response_model.py)         *)
(*                                                                         *)
(* The handlers return Item objects, one, a list or a dict of them under   *)
(* the keys k1, k2, ...  The Item of this file names its field name        *)
(* "aliased_name" and has a wrapping serializer that looks at the context  *)
(* the route declares.  A context is "None" or the value of its "mode"     *)
(* key.  A serialized model is a function from its JSON keys to values.    *)
(***************************************************************************)
Contexts == {"None", "FASTAPI", "OTHER"}

valid == <<"v", "a", "l", "i", "d">>

coerce == <<"c", "o", "e", "r", "c", "e">>

\* Item(aliased_name=..., price=..., owner_ids=...): the values validated as
\* the fields declare, None for a field that is not given, and the names of
\* the fields given.
Item(aliased_name, price, owner_ids) ==
    [fields |-> validate_Item(ItemDict(aliased_name, price, owner_ids)).dicts[1],
     fields_set |-> {f \in {"name", "price", "owner_ids"} :
                        [name |-> aliased_name, price |-> price,
                         owner_ids |-> owner_ids][f] # NoKey}]

One(item) == [shape |-> "Item", models |-> <<item>>]

ListOf(models) == [shape |-> "List[Item]", models |-> models]

\* The dict with the keys k1, k2, ... in this order.
DictOf(models) == [shape |-> "Dict[str, Item]", models |-> models]

get_valid == One(Item(PyStr(valid), PyFloat(10), NoKey))

get_coerce == One(Item(PyStr(coerce), PyStr(<<"1", ".", "0">>), NoKey))

ThreeItems ==
    <<Item(PyStr(foo), NoKey, NoKey),
      Item(PyStr(bar), PyFloat(10), NoKey),
      Item(PyStr(baz), PyFloat(20), PyList(<<PyInt(1), PyInt(2), PyInt(3)>>))>>

get_validlist == ListOf(ThreeItems)

get_validdict == DictOf(ThreeItems)

SerializedRoute(url, returns, exclude_unset, context) ==
    [path |-> url, response_model |-> returns.shape, returns |-> returns,
     response_model_exclude_unset |-> exclude_unset,
     response_model_context |-> context]

TestRoutes ==
    {SerializedRoute("/items/valid", get_valid, FALSE, "None"),
     SerializedRoute("/items/coerce", get_coerce, FALSE, "None"),
     SerializedRoute("/items/validlist", get_validlist, FALSE, "None"),
     SerializedRoute("/items/validdict", get_validdict, FALSE, "None"),
     SerializedRoute("/items/valid-exclude-unset", get_valid, TRUE, "None"),
     SerializedRoute("/items/coerce-exclude-unset", get_coerce, TRUE, "None"),
     SerializedRoute("/items/validlist-exclude-unset", get_validlist, TRUE,
                     "None"),
     SerializedRoute("/items/validdict-exclude-unset", get_validdict, TRUE,
                     "None"),
     SerializedRoute("/items/validdict-with-context", get_validdict, FALSE,
                     "FASTAPI")}

\* The Item objects handlers of other routes return.
Items ==
    {Item(PyStr(foo), price, owner_ids) :
        price \in {NoKey, PyNone, PyFloat(10), PyStr(<<"1", ".", "0">>)},
        owner_ids \in {NoKey, PyList(<<PyInt(1)>>)}}

ItemSeqs == UNION {[1..n -> Items] : n \in 0..MaxListLen}

OtherRoutes ==
    {SerializedRoute("/items/other", returns, exclude_unset, context) :
        returns \in {One(i) : i \in Items}
                        \cup {ListOf(l) : l \in ItemSeqs}
                        \cup {DictOf(l) : l \in ItemSeqs},
        exclude_unset \in BOOLEAN,
        context \in Contexts}

\* The JSON key of a field: the alias where the field has one.
JsonKey(f) == IF f = "name" THEN "aliased_name" ELSE f

\* handler(self): the fields under their JSON keys, those that were not set
\* left out when the route excludes them.
handler(item, exclude_unset) ==
    LET kept == {f \in {"name", "price", "owner_ids"} :
                    exclude_unset => f \in item.fields_set}
    IN  [k \in {JsonKey(f) : f \in kept} |->
            item.fields[CHOOSE f \in kept : JsonKey(f) = k]]

Pop(data, key) == [k \in DOMAIN data \ {key} |-> data[k]]

\* The mutated serializer: "if info.context:".
_serialize_AnyContext(item, exclude_unset, context) ==
    IF context # "None"
    THEN Pop(handler(item, exclude_unset), "price")
    ELSE handler(item, exclude_unset)

\* Item._serialize
_serialize(item, exclude_unset, context) ==
    IF context # "None" /\ context = "FASTAPI"
    THEN Pop(handler(item, exclude_unset), "price")
    ELSE handler(item, exclude_unset)

\* The body of the response: every model serialized, in the shape returned.
serialize_models(r) ==
    [shape |-> r.returns.shape,
     models |-> [i \in 1..Len(r.returns.models) |->
                    _serialize(r.returns.models[i],
                              r.response_model_exclude_unset,
                              r.response_model_context)]]

SerializeStart ==
    /\ route \in TestRoutes \cup OtherRoutes
    /\ response = NoResponse

\* client.get(route.path) on a route of this file.
GetSerialized ==
    /\ response = NoResponse
    /\ response' = [status |-> "responded", error |-> "None",
                    body |-> <<serialize_models(route)>>]
    /\ UNCHANGED route
    /\ UNCHANGED notRoute

SerializeNext == GetSerialized

Serialized ==
    /\ response.status = "responded"
    /\ "response_model_context" \in DOMAIN route

\* The serialized models of the body, and the objects they come from.
SerializedModels == response.body[1].models

Returned == route.returns.models

\* Every serialized model is keyed by the alias and never by the name, and
\* the body has the shape and as many models as the handler returned.
KeyedByAlias ==
    /\ response.body[1].shape = route.response_model
    /\ Len(SerializedModels) = Len(Returned)
    /\ \A i \in 1..Len(SerializedModels) :
           /\ "aliased_name" \in DOMAIN SerializedModels[i]
           /\ "name" \notin DOMAIN SerializedModels[i]
           /\ SerializedModels[i]["aliased_name"] =
                  Returned[i].fields.name

\* C11 as stated: the body is keyed by the alias; with the context
\* {"mode": "FASTAPI"} no serialized model has a price, and without a
\* context every serialized model has one.
C11_AliasAndContext ==
    Serialized =>
        /\ KeyedByAlias
        /\ route.response_model_context = "FASTAPI" =>
               \A i \in 1..Len(SerializedModels) : "price" \notin DOMAIN SerializedModels[i]
        /\ route.response_model_context = "None" =>
               \A i \in 1..Len(SerializedModels) : "price" \in DOMAIN SerializedModels[i]

\* C11 as amended: the body is keyed by the alias; with the context
\* {"mode": "FASTAPI"} no serialized model has a price; with no context, or
\* one of another mode, a serialized model has the price of its object,
\* unless the route excludes unset fields and the price was not set.
C11_AliasAndContextUnlessUnset ==
    Serialized =>
        /\ KeyedByAlias
        /\ route.response_model_context = "FASTAPI" =>
               \A i \in 1..Len(SerializedModels) : "price" \notin DOMAIN SerializedModels[i]
        /\ route.response_model_context # "FASTAPI" =>
               \A i \in 1..Len(SerializedModels) :
                   IF route.response_model_exclude_unset
                      /\ "price" \notin Returned[i].fields_set
                   THEN "price" \notin DOMAIN SerializedModels[i]
                   ELSE /\ "price" \in DOMAIN SerializedModels[i]
                        /\ SerializedModels[i]["price"] = Returned[i].fields.price

\* /items/validdict-with-context answered k1, k2 and k3 without a price,
\* k3 with its owner_ids.
C11_Witness ==
    /\ Serialized
    /\ route.path = "/items/validdict-with-context"
    /\ response.body[1].shape = "Dict[str, Item]"
    /\ DOMAIN SerializedModels[2] = {"aliased_name", "owner_ids"}
    /\ SerializedModels[2]["aliased_name"] = PyStr(bar)
    /\ SerializedModels[3]["owner_ids"] = PyList(<<PyInt(1), PyInt(2), PyInt(3)>>)

(***************************************************************************)
(* generate_unique_id                                                      *)
(*                                                                         *)
(* A route has a name, a path format and a set of methods.  The id is made *)
(* with the method that comes first when the set is listed, and the order  *)
(* in which a set of strings is listed is not fixed: the call is made with *)
(* any one of the methods.  The function is called for two routes.         *)
(***************************************************************************)
MaxFormatLen == 2

RouteNames == {<<"a">>, <<"a", "_">>}

PathFormats == UNION {[1..n -> {"/", "-", "_"}] : n \in 0..MaxFormatLen}

GET == <<"G", "E", "T">>

POST == <<"P", "O", "S", "T">>

APIRoutes ==
    [name : RouteNames, path_format : PathFormats, methods : SUBSET {GET, POST}]

Lowercase ==
    <<"a", "b", "c", "d", "e", "f", "g", "h", "i", "j", "k", "l", "m", "n",
      "o", "p", "q", "r", "s", "t", "u", "v", "w", "x", "y", "z">>

Uppercase ==
    <<"A", "B", "C", "D", "E", "F", "G", "H", "I", "J", "K", "L", "M", "N",
      "O", "P", "Q", "R", "S", "T", "U", "V", "W", "X", "Y", "Z">>

\* \w
IsWordChar(c) ==
    \/ c = "_"
    \/ IsDigit(c)
    \/ \E i \in 1..26 : c = Lowercase[i] \/ c = Uppercase[i]

\* re.sub(r"\W", "_", s)
SubNonWord(s) == [i \in 1..Len(s) |-> IF IsWordChar(s[i]) THEN s[i] ELSE "_"]

\* s.lower()
Lower(s) ==
    [i \in 1..Len(s) |->
        IF \E j \in 1..26 : Uppercase[j] = s[i]
        THEN Lowercase[CHOOSE j \in 1..26 : Uppercase[j] = s[i]]
        ELSE s[i]]

AssertionError == <<"AssertionError">>

\* generate_unique_id(r) when list(r.methods)[0] is first.
generate_unique_id(r, first) ==
    IF r.methods = {} THEN AssertionError
    ELSE SubNonWord(r.name \o r.path_format) \o <<"_">> \o Lower(first)

NoIds == <<>>

UniqueStart ==
    /\ api_routes \in APIRoutes \X APIRoutes
    /\ operation_ids = NoIds

UniqueIdle ==
    /\ api_routes = <<>>
    /\ operation_ids = NoIds

\* What listing the methods of r may put first.
FirstOf(r) == IF r.methods = {} THEN {<<>>} ELSE r.methods

CallGenerateUniqueId ==
    /\ operation_ids = NoIds
    /\ \E first1 \in FirstOf(api_routes[1]), first2 \in FirstOf(api_routes[2]) :
           operation_ids' = <<generate_unique_id(api_routes[1], first1),
                              generate_unique_id(api_routes[2], first2)>>
    /\ UNCHANGED api_routes
    /\ UNCHANGED notUnique

UniqueNext == CallGenerateUniqueId

UniqueDone == operation_ids # NoIds

\* C12: two routes that differ in name, path format or methods get
\* different ids, and the same route gets the same id both times.
C12_UniqueOperationId ==
    (UniqueDone /\ api_routes[1].methods # {} /\ api_routes[2].methods # {}) =>
        (operation_ids[1] = operation_ids[2] <=> api_routes[1] = api_routes[2])

\* The routes a/- and a/_, both GET, got the one id a___get.
C12_Witness ==
    /\ UniqueDone
    /\ api_routes[1] = [name |-> <<"a">>, path_format |-> <<"/", "-">>,
                        methods |-> {GET}]
    /\ api_routes[2] = [name |-> <<"a">>, path_format |-> <<"/", "_">>,
                        methods |-> {GET}]
    /\ operation_ids[1] = <<"a", "_", "_", "_", "g", "e", "t">>
    /\ operation_ids[2] = operation_ids[1]

(***************************************************************************)
(* The specifications, one for each family of helpers.                     *)
(***************************************************************************)
StatusInit ==
    /\ StatusStart /\ DefaultIdle /\ MergeIdle /\ CompatIdle /\ CloneIdle
    /\ FieldIdle /\ PathIdle /\ ParamIdle /\ RouteIdle
    /\ UniqueIdle

SpecStatus == StatusInit /\ [][StatusNext]_vars

DefaultInit ==
    /\ DefaultStart /\ StatusIdle /\ MergeIdle /\ CompatIdle /\ CloneIdle
    /\ FieldIdle /\ PathIdle /\ ParamIdle /\ RouteIdle
    /\ UniqueIdle

SpecDefault == DefaultInit /\ [][DefaultNext]_vars

MergeInit ==
    /\ MergeStart /\ StatusIdle /\ DefaultIdle /\ CompatIdle /\ CloneIdle
    /\ FieldIdle /\ PathIdle /\ ParamIdle /\ RouteIdle
    /\ UniqueIdle

SpecMerge == MergeInit /\ [][MergeNext]_vars

CloneInit ==
    /\ CloneStart /\ StatusIdle /\ DefaultIdle /\ MergeIdle
    /\ FieldIdle /\ PathIdle /\ ParamIdle /\ RouteIdle
    /\ UniqueIdle

SpecClone == CloneInit /\ [][CloneNext]_vars

FieldInit ==
    /\ FieldStart /\ StatusIdle /\ DefaultIdle /\ MergeIdle /\ CloneIdle
    /\ PathIdle /\ ParamIdle /\ RouteIdle
    /\ UniqueIdle

SpecField == FieldInit /\ [][FieldNext]_vars

PathInit ==
    /\ PathStart /\ StatusIdle /\ DefaultIdle /\ MergeIdle /\ CompatIdle
    /\ CloneIdle /\ FieldIdle /\ ParamIdle /\ RouteIdle
    /\ UniqueIdle

SpecPath == PathInit /\ [][PathNext]_vars

ParamInit ==
    /\ ParamStart /\ StatusIdle /\ DefaultIdle /\ MergeIdle /\ CompatIdle
    /\ CloneIdle /\ FieldIdle /\ PathIdle /\ RouteIdle
    /\ UniqueIdle

SpecParam == ParamInit /\ [][ParamNext]_vars

RouteInit ==
    /\ RouteStart /\ StatusIdle /\ DefaultIdle /\ MergeIdle /\ CompatIdle
    /\ CloneIdle /\ FieldIdle /\ PathIdle /\ ParamIdle
    /\ UniqueIdle

SpecRoute == RouteInit /\ [][RouteNext]_vars

SerializeInit ==
    /\ SerializeStart /\ StatusIdle /\ DefaultIdle /\ MergeIdle /\ CompatIdle
    /\ CloneIdle /\ FieldIdle /\ PathIdle /\ ParamIdle
    /\ UniqueIdle

SpecSerialize == SerializeInit /\ [][SerializeNext]_vars

UniqueInit ==
    /\ UniqueStart /\ StatusIdle /\ DefaultIdle /\ MergeIdle /\ CompatIdle
    /\ CloneIdle /\ FieldIdle /\ PathIdle /\ ParamIdle /\ RouteIdle

SpecUnique == UniqueInit /\ [][UniqueNext]_vars

====
